---- MODULE Spec2Model ----
(***************************************************************************)
(* Model of yeka/fileshare (src/main.go): the path validator, the          *)
(* directory listing, the upload writer and the two HTTP handlers, over an *)
(* explicit filesystem.                                                    *)
(*                                                                         *)
(* A Go string is a sequence of one-character strings (<<"a", ".", "b">>   *)
(* is "a.b"), so that Clean, Join, Split, Ext, Base and the slicing of     *)
(* line 172 are computed character by character.  An error message is a    *)
(* sequence whose first element is the constant text of the message;       *)
(* the empty sequence is the nil error.                                    *)
(***************************************************************************)
EXTENDS Integers, Sequences, FiniteSets, TLC

VARIABLES config, fs, nreq, req, resp, vres, ures, procs, owner

vars == <<config, fs, nreq, req, resp, vres, ures, procs, owner>>

(***************************************************************************)
(* Bounds.                                                                 *)
(***************************************************************************)
MaxRawLen == 4
MaxReq == 3
NProcs == 2

(***************************************************************************)
(* Strings.                                                                *)
(***************************************************************************)
NoErr == <<>>

HasPrefix(s, pre) ==
    /\ Len(s) >= Len(pre)
    /\ SubSeq(s, 1, Len(pre)) = pre

HasSuffix(s, suf) ==
    /\ Len(s) >= Len(suf)
    /\ SubSeq(s, Len(s) - Len(suf) + 1, Len(s)) = suf

RECURSIVE Split(_)
Split(s) ==
    IF \A k \in 1..Len(s) : s[k] # "/"
    THEN <<s>>
    ELSE LET k == CHOOSE k \in 1..Len(s) :
                     /\ s[k] = "/"
                     /\ \A m \in 1..(k - 1) : s[m] # "/"
         IN  <<SubSeq(s, 1, k - 1)>> \o Split(SubSeq(s, k + 1, Len(s)))

RECURSIVE JoinStr(_, _)
JoinStr(ss, sep) ==
    IF ss = <<>> THEN <<>>
    ELSE IF Len(ss) = 1 THEN ss[1]
    ELSE ss[1] \o sep \o JoinStr(Tail(ss), sep)

Digit(d) ==
    CASE d = 0 -> "0" [] d = 1 -> "1" [] d = 2 -> "2" [] d = 3 -> "3"
      [] d = 4 -> "4" [] d = 5 -> "5" [] d = 6 -> "6" [] d = 7 -> "7"
      [] d = 8 -> "8" [] d = 9 -> "9"

RECURSIVE Itoa(_)
Itoa(i) ==
    IF i < 10 THEN <<Digit(i)>>
    ELSE Itoa(i \div 10) \o <<Digit(i % 10)>>

(***************************************************************************)
(* path/filepath on a Unix build.                                          *)
(***************************************************************************)
DotDot == <<".", ".">>

RECURSIVE CleanStack(_, _, _)
CleanStack(segs, rooted, out) ==
    IF segs = <<>> THEN out
    ELSE LET s == Head(segs)
             rest == Tail(segs)
         IN  IF s = <<>> \/ s = <<".">>
             THEN CleanStack(rest, rooted, out)
             ELSE IF s = DotDot
             THEN IF out # <<>> /\ out[Len(out)] # DotDot
                  THEN CleanStack(rest, rooted, SubSeq(out, 1, Len(out) - 1))
                  ELSE IF rooted
                  THEN CleanStack(rest, rooted, out)
                  ELSE CleanStack(rest, rooted, Append(out, s))
             ELSE CleanStack(rest, rooted, Append(out, s))

CleanOut(rooted, body) ==
    IF rooted THEN <<"/">> \o body
    ELSE IF body = <<>> THEN <<".">>
    ELSE body

CleanBody(p, rooted) ==
    CleanOut(rooted, JoinStr(CleanStack(Split(p), rooted, <<>>), <<"/">>))

Clean(p) ==
    IF p = <<>> THEN <<".">> ELSE CleanBody(p, p[1] = "/")

\* filepath.Join of two elements: the elements from the first non-empty one
\* on are joined with "/" and cleaned; all empty gives "".
Join(a, b) ==
    IF a = <<>> /\ b = <<>> THEN <<>>
    ELSE Clean(IF a # <<>> THEN a \o <<"/">> \o b ELSE b)

RECURSIVE Ext(_)
Ext(name) ==
    IF name = <<>> \/ name[Len(name)] = "/" THEN <<>>
    ELSE IF name[Len(name)] = "." THEN <<".">>
    ELSE LET e == Ext(SubSeq(name, 1, Len(name) - 1))
         IN  IF e = <<>> THEN <<>> ELSE Append(e, name[Len(name)])

RECURSIVE TrimSlashes(_)
TrimSlashes(p) ==
    IF p # <<>> /\ p[Len(p)] = "/"
    THEN TrimSlashes(SubSeq(p, 1, Len(p) - 1))
    ELSE p

LastOf(segs) == segs[Len(segs)]

BaseTrimmed(t) ==
    IF t = <<>> THEN <<"/">> ELSE LastOf(Split(t))

Base(p) ==
    IF p = <<>> THEN <<".">> ELSE BaseTrimmed(TrimSlashes(p))

(***************************************************************************)
(* The filesystem: a function from absolute cleaned paths to entries.      *)
(* The process runs in directory Cwd; relative paths resolve against it.   *)
(***************************************************************************)
Cwd == <<"/", "w">>

Abs(p) ==
    Clean(IF p # <<>> /\ p[1] = "/" THEN p ELSE Cwd \o <<"/">> \o p)

AbsSegs(a) == SelectSeq(Split(a), LAMBDA s : s # <<>>)

PathOf(segs) == <<"/">> \o JoinStr(segs, <<"/">>)

ParentOf(segs) ==
    IF segs = <<>> THEN <<"/">>
    ELSE PathOf(SubSeq(segs, 1, Len(segs) - 1))

Parent(a) == ParentOf(AbsSegs(a))

ENOENT == <<"no such file or directory">>
ENOTDIR == <<"not a directory">>
EISDIR == <<"is a directory">>

\* The error of resolving the directory that holds absolute path a.
LookupErrIn(f, above) ==
    IF \E d \in above : d \in DOMAIN f /\ ~f[d].dir THEN ENOTDIR
    ELSE IF \E d \in above : d \notin DOMAIN f THEN ENOENT
    ELSE NoErr

Ancestors(segs) ==
    {PathOf(SubSeq(segs, 1, k)) : k \in 0..(Len(segs) - 1)}

LookupErr(f, a) == LookupErrIn(f, Ancestors(AbsSegs(a)))

\* os.Stat: [err, dir].
StatEntry(f, a, slash, le) ==
    IF le # NoErr THEN [err |-> le, dir |-> FALSE]
    ELSE IF a \notin DOMAIN f THEN [err |-> ENOENT, dir |-> FALSE]
    ELSE IF slash /\ ~f[a].dir THEN [err |-> ENOTDIR, dir |-> FALSE]
    ELSE [err |-> NoErr, dir |-> f[a].dir]

StatAbs(f, a, slash) == StatEntry(f, a, slash, LookupErr(f, a))

Stat(f, p) ==
    IF p = <<>> THEN [err |-> ENOENT, dir |-> FALSE]
    ELSE StatAbs(f, Abs(p), p[Len(p)] = "/")

Dir == [dir |-> TRUE, data |-> <<>>]

File(d) == [dir |-> FALSE, data |-> d]

InitFS ==
    (<<"/">> :> Dir)
    @@ (<<"/", "a">> :> Dir)
    @@ (<<"/", "a", "/", "a">> :> File(<<"x">>))
    @@ (<<"/", "w">> :> Dir)
    @@ (<<"/", "w", "/", "a">> :> Dir)
    @@ (<<"/", "w", "/", "a", "/", "a">> :> File(<<"y">>))
    @@ (<<"/", "w", "/", "a", ".", "b">> :> File(<<"x", "y">>))
    @@ (<<"/", "w", "/", ".", "a">> :> File(<<"y">>))

(***************************************************************************)
(* validatePath, main.go:122-148.                                          *)
(***************************************************************************)
InvalidSegsDotDotOnly(p) ==
    IF p # <<".">> /\ p # <<>>
    THEN SelectSeq(Split(p), LAMBDA s : s = DotDot)
    ELSE <<>>

\* The segments of the cleaned path that lines 124-131 reject, in order.
InvalidSegs(p) ==
    IF p # <<".">> /\ p # <<>>
    THEN SelectSeq(Split(p), LAMBDA s : HasPrefix(s, <<".">>))
    ELSE <<>>

InvalidPath(s) == <<"invalid path: ">> \o s

\* Lines 135-147, with st the result of the stat of line 134.
validateStat(j, st) ==
    IF st.err # NoErr THEN [path |-> <<>>, err |-> st.err]
    ELSE [path |-> IF st.dir THEN j \o <<"/">> ELSE j, err |-> NoErr]

\* Lines 126-134, with bad the rejected segments and j the joined path.
validateJoined(f, bad, j) ==
    IF bad # <<>> THEN [path |-> <<>>, err |-> InvalidPath(bad[1])]
    ELSE validateStat(j, Stat(f, j))

validateCleaned(f, base, p) ==
    validateJoined(f, InvalidSegs(p), Join(base, p))

validatePath(f, base, p0) == validateCleaned(f, base, Clean(p0))

(***************************************************************************)
(* The upload writer, main.go:155-189.                                     *)
(***************************************************************************)
\* Part.FileName(): the filename parameter, passed through filepath.Base
\* when it is not empty (mime/multipart since Go 1.17; the go:embed of line
\* 25 needs Go 1.16 or later).
FileName(part) ==
    IF part.filename = <<>> THEN <<>> ELSE Base(part.filename)

Suffix(i) == <<" ", "(">> \o Itoa(i) \o <<")">>

CandidateNoStat(f, file, ext, i) == [err |-> NoErr, file |-> file, i |-> i]

\* Line 172.
NextName(file, ext, i) ==
    SubSeq(file, 1, Len(file) - Len(ext)) \o Suffix(i) \o ext

\* One pass of the loop of lines 162-173, with st the stat of line 163.
RECURSIVE CandidateStat(_, _, _, _, _)
CandidateStat(f, file, ext, i, st) ==
    IF st.err = ENOENT THEN [err |-> NoErr, file |-> file, i |-> i]
    ELSE IF st.err # NoErr THEN [err |-> st.err, file |-> file, i |-> i]
    ELSE CandidateStat(f, NextName(file, ext, i + 1), ext, i + 1,
                       Stat(f, NextName(file, ext, i + 1)))

\* The loop of lines 161-173 entered with candidate file and counter i.
Candidate(f, file, ext, i) == CandidateStat(f, file, ext, i, Stat(f, file))

\* os.Create: O_RDWR|O_CREATE|O_TRUNC.
CreateEntry(f, a, le) ==
    IF le # NoErr THEN [err |-> le, fs |-> f]
    ELSE IF a \in DOMAIN f
    THEN IF f[a].dir THEN [err |-> EISDIR, fs |-> f]
         ELSE [err |-> NoErr, fs |-> [f EXCEPT ![a] = File(<<>>)]]
    ELSE [err |-> NoErr, fs |-> f @@ (a :> File(<<>>))]

CreateAbs(f, a) == CreateEntry(f, a, LookupErr(f, a))

Create(f, file) ==
    IF file = <<>> THEN [err |-> ENOENT, fs |-> f]
    ELSE CreateAbs(f, Abs(file))

\* The content of a file after data is written at offset off: a hole left
\* by a truncation reads as zero bytes.
Overlay(old, off, data) ==
    [k \in 1..(IF Len(old) > off + Len(data) THEN Len(old)
               ELSE off + Len(data)) |->
        IF k > off /\ k <= off + Len(data) THEN data[k - off]
        ELSE IF k <= Len(old) THEN old[k]
        ELSE "NUL"]

WriteAbs(f, a, off, data) ==
    IF a \in DOMAIN f /\ ~f[a].dir
    THEN [f EXCEPT ![a] = File(Overlay(@.data, off, data))]
    ELSE f

\* The writes of io.Copy through the descriptor os.Create returned, which
\* starts at offset 0.
Write(f, file, data) == WriteAbs(f, Abs(file), 0, data)

\* os.Remove of a file.
RemoveAbs(f, a) ==
    IF a \in DOMAIN f /\ ~f[a].dir
    THEN [x \in DOMAIN f \ {a} |-> f[x]]
    ELSE f

Remove(f, file) == RemoveAbs(f, Abs(file))

RemoveIgnoringFlag(f, file, err, dontRemove) ==
    IF err # NoErr THEN Remove(f, file) ELSE f

\* Lines 183-186.
RemoveOnError(f, file, err, dontRemove) ==
    IF err # NoErr /\ ~dontRemove THEN Remove(f, file) ELSE f

\* Lines 176-188, with cr the result of the os.Create of line 175.
uploadCreated(f, part, dontRemove, c, cr) ==
    IF cr.err # NoErr
    THEN [fs |-> f, err |-> cr.err, file |-> c.file, i |-> c.i,
          n |-> 0, created |-> FALSE]
    ELSE [fs |-> RemoveOnError(Write(cr.fs, c.file, part.data),
                               c.file, part.err, dontRemove),
          err |-> part.err, file |-> c.file, i |-> c.i,
          n |-> Len(part.data), created |-> TRUE]

\* Lines 167-175, with c the outcome of the loop.
uploadCandidate(f, part, dontRemove, c) ==
    IF c.err # NoErr
    THEN [fs |-> f, err |-> c.err, file |-> c.file, i |-> c.i,
          n |-> 0, created |-> FALSE]
    ELSE uploadCreated(f, part, dontRemove, c, Create(f, c.file))

uploadNamed(f, path, part, dontRemove, fileName) ==
    uploadCandidate(f, part, dontRemove,
                    Candidate(f, Join(path, fileName), Ext(fileName), 0))

upload(f, path, part, dontRemove) ==
    uploadNamed(f, path, part, dontRemove, FileName(part))

(***************************************************************************)
(* The listing, main.go:66-83.                                             *)
(***************************************************************************)
Ord(c) ==
    CASE c = " " -> 32 [] c = "(" -> 40 [] c = ")" -> 41 [] c = "." -> 46
      [] c = "/" -> 47 [] c = "0" -> 48 [] c = "1" -> 49 [] c = "2" -> 50
      [] c = "3" -> 51 [] c = "4" -> 52 [] c = "5" -> 53 [] c = "6" -> 54
      [] c = "7" -> 55 [] c = "8" -> 56 [] c = "9" -> 57 [] c = "a" -> 97
      [] c = "b" -> 98 [] c = "w" -> 119

RECURSIVE LessStr(_, _)
LessStr(a, b) ==
    IF b = <<>> THEN FALSE
    ELSE IF a = <<>> THEN TRUE
    ELSE IF a[1] # b[1] THEN Ord(a[1]) < Ord(b[1])
    ELSE LessStr(Tail(a), Tail(b))

RECURSIVE SortNames(_)
SortNames(S) ==
    IF S = {} THEN <<>>
    ELSE LET m == CHOOSE m \in S : \A o \in S \ {m} : LessStr(m, o)
         IN  <<m>> \o SortNames(S \ {m})

\* os.ReadDir: the entries of the directory, sorted by file name.
Entries(f, a, sorted) ==
    [k \in 1..Len(sorted) |->
        [name |-> sorted[k],
         dir |-> f[IF a = <<"/">> THEN a \o sorted[k]
                   ELSE a \o <<"/">> \o sorted[k]].dir]]

Children(f, a) ==
    {x \in DOMAIN f : x # <<"/">> /\ Parent(x) = a}

ReadDirAbs(f, a) ==
    IF a \notin DOMAIN f THEN [err |-> ENOENT, entries |-> <<>>]
    ELSE IF ~f[a].dir THEN [err |-> ENOTDIR, entries |-> <<>>]
    ELSE [err |-> NoErr,
          entries |-> Entries(f, a,
                              SortNames({LastOf(AbsSegs(x)) :
                                            x \in Children(f, a)}))]

ReadDir(f, path) == ReadDirAbs(f, Abs(path))

\* Lines 71-81.
ListShown(shown) ==
    [k \in 1..Len(shown) |->
        IF shown[k].dir THEN shown[k].name \o <<"/">> ELSE shown[k].name]

ListNames(entries) ==
    ListShown(SelectSeq(entries, LAMBDA e : ~HasPrefix(e.name, <<".">>)))

\* Line 83.
ListBody(paths) == <<"[">> \o JoinStr(paths, <<",">>) \o <<"]">>

(***************************************************************************)
(* Inputs.                                                                 *)
(***************************************************************************)
RawChars == {"/", ".", "a"}

RawPaths == UNION {[1..n -> RawChars] : n \in 0..MaxRawLen}

Bases == {<<>>, <<"/">>, <<"/", "w">>, <<"/", "a">>, <<"a">>}

\* main.go:28 leaves every field at its zero value, and an empty BasePath
\* is the working directory; the other configurations set the fields of the
\* Config type, with the same directory given as an absolute base.
DefaultConfig ==
    [DisableDirectoryListing |-> FALSE, DontRemoveOnError |-> FALSE,
     BasePath |-> <<>>]

ReqConfigs ==
    {DefaultConfig,
     [DefaultConfig EXCEPT !.BasePath = Cwd],
     [DefaultConfig EXCEPT !.BasePath = Cwd, !.DontRemoveOnError = TRUE],
     [DefaultConfig EXCEPT !.BasePath = Cwd,
                           !.DisableDirectoryListing = TRUE]}

\* The path query parameter: the base itself, a directory, a file, a
\* traversal attempt.
DirQueries == {<<>>, <<"a">>}

ReqPaths == DirQueries \cup {<<"a", ".", "b">>, <<".", ".">>}

RawFileNames == {<<>>, <<"a", ".", "b">>, <<".", ".">>, <<"b", "/", "a">>}

Part(form, filename, err) ==
    [form |-> form, filename |-> filename, data |-> <<"x">>, err |-> err]

EOFErr == <<"unexpected EOF">>

MyParts == {Part("myFile", n, e) : n \in RawFileNames, e \in {NoErr, EOFErr}}

OtherPart == Part("other", <<"a", ".", "b">>, NoErr)

GoodPart == Part("myFile", <<"a", ".", "b">>, NoErr)

PartSeqs ==
    {<<>>, <<OtherPart>>, <<OtherPart, OtherPart>>, <<OtherPart, GoodPart>>,
     <<GoodPart, OtherPart>>, <<GoodPart, Part("myFile", <<"a">>, NoErr)>>,
     <<Part("myFile", <<"a">>, EOFErr), GoodPart>>}
        \cup {<<p>> : p \in MyParts}

\* A request: the path query, whether the body is multipart, and the parts
\* NextPart returns before it reports io.EOF or a malformed stream (line
\* 106 leaves the loop on either).
UploadRequests ==
    [raw : DirQueries, parts : PartSeqs, multipart : {TRUE}]
        \cup [raw : ReqPaths, parts : {<<GoodPart>>}, multipart : {TRUE}]
        \cup [raw : {<<>>}, parts : {<<>>}, multipart : {FALSE}]

NoCall == [called |-> FALSE]

NoResp == [status |-> 0, kind |-> "none", body |-> <<>>]

NoReq == [op |-> "none"]

InitCommon ==
    /\ fs = InitFS
    /\ nreq = 0
    /\ req = NoReq
    /\ resp = NoResp
    /\ vres = NoCall
    /\ ures = NoCall
    /\ procs = <<>>
    /\ owner = <<>>

(***************************************************************************)
(* validatePath as a function of (base, raw path) over the fixed tree.     *)
(***************************************************************************)
InitPath ==
    /\ config \in {[DefaultConfig EXCEPT !.BasePath = b] : b \in Bases}
    /\ InitCommon

Validate ==
    /\ ~vres.called
    /\ \E raw \in RawPaths :
           vres' = [called |-> TRUE, raw |-> raw,
                    res |-> validatePath(fs, config.BasePath, raw)]
    /\ UNCHANGED <<config, fs, nreq, req, resp, ures, procs, owner>>

NextPath == Validate

SpecPath == InitPath /\ [][NextPath]_vars

(***************************************************************************)
(* The HTTP handlers, one request at a time.                               *)
(***************************************************************************)
Init ==
    /\ config \in ReqConfigs
    /\ InitCommon

Response(status, kind, body) ==
    [status |-> status, kind |-> kind, body |-> body]

StatusOK == 200
StatusBadRequest == 400

\* handleList, main.go:44-84, as the response it writes.
\* Lines 66-83, with rd the result of os.ReadDir.
listDir(rd) ==
    IF rd.err # NoErr THEN Response(StatusBadRequest, "error", rd.err)
    ELSE Response(StatusOK, "list", ListBody(ListNames(rd.entries)))

\* Lines 45-64, with v the result of validatePath.
listResponse(f, cfg, v) ==
    IF cfg.DisableDirectoryListing
    THEN Response(StatusOK, "disabled", <<"[", "]">>)
    ELSE IF v.err # NoErr THEN Response(StatusBadRequest, "error", v.err)
    ELSE IF ~HasSuffix(v.path, <<"/">>)
    THEN Response(StatusOK, "download", f[Abs(v.path)].data)
    ELSE listDir(ReadDir(f, v.path))

\* handleList, main.go:44-84.
HandleList ==
    /\ nreq < MaxReq
    /\ \E raw \in ReqPaths :
           \E v \in {validatePath(fs, config.BasePath, raw)} :
               /\ req' = [op |-> "list", raw |-> raw, pre |-> fs, v |-> v]
               /\ resp' = listResponse(fs, config, v)
    /\ nreq' = nreq + 1
    /\ ures' = NoCall
    /\ UNCHANGED <<config, fs, vres, procs, owner>>

LastMyFile(parts) ==
    IF \A k \in 1..Len(parts) : parts[k].form # "myFile" THEN 0
    ELSE CHOOSE k \in 1..Len(parts) :
             /\ parts[k].form = "myFile"
             /\ \A m \in (k + 1)..Len(parts) : parts[m].form # "myFile"

\* The loop of lines 104-117: the index of the part handed to upload, 0 when
\* the parts run out first.
RECURSIVE FirstMyFile(_)
FirstMyFile(parts) ==
    IF parts = <<>> THEN 0
    ELSE IF Head(parts).form = "myFile" THEN 1
    ELSE LET k == FirstMyFile(Tail(parts))
         IN  IF k = 0 THEN 0 ELSE k + 1

NotMultipart == <<"request Content-Type isn't multipart/form-data">>

NoUpload == [created |-> FALSE]

\* Lines 88-119, with v the result of validatePath, k the index of the part
\* handed to upload and u what upload did.
uploadResponse(r, v, k, u) ==
    IF v.err # NoErr THEN Response(StatusBadRequest, "error", v.err)
    ELSE IF ~HasSuffix(v.path, <<"/">>)
    THEN Response(StatusBadRequest, "error", <<"not a directory">>)
    ELSE IF ~r.multipart THEN Response(StatusBadRequest, "error", NotMultipart)
    ELSE IF k = 0
    THEN Response(StatusBadRequest, "error", <<"unknown payload">>)
    ELSE IF u.err # NoErr
    THEN Response(StatusBadRequest, "error", <<"upload failed: ">> \o u.err)
    ELSE Response(StatusOK, "empty", <<>>)

\* Whether the handler reaches line 111.
Uploads(r, v, k) ==
    /\ v.err = NoErr
    /\ HasSuffix(v.path, <<"/">>)
    /\ r.multipart
    /\ k > 0

UploadLog(v, k, part, u) ==
    [called |-> TRUE, k |-> k, path |-> v.path, part |-> part,
     file |-> u.file, i |-> u.i, n |-> u.n, err |-> u.err,
     created |-> u.created]

\* handleUpload, main.go:86-120.
HandleUpload ==
    /\ nreq < MaxReq
    /\ \E r \in UploadRequests :
       \E v \in {validatePath(fs, config.BasePath, r.raw)} :
       \E k \in {FirstMyFile(r.parts)} :
       \E u \in {IF Uploads(r, v, k)
                 THEN upload(fs, v.path, r.parts[k], config.DontRemoveOnError)
                 ELSE NoUpload} :
           /\ req' = [op |-> "upload", raw |-> r.raw, pre |-> fs, v |-> v,
                      parts |-> r.parts, multipart |-> r.multipart]
           /\ resp' = uploadResponse(r, v, k, u)
           /\ IF Uploads(r, v, k)
              THEN /\ fs' = u.fs
                   /\ ures' = UploadLog(v, k, r.parts[k], u)
              ELSE /\ fs' = fs
                   /\ ures' = NoCall
    /\ nreq' = nreq + 1
    /\ UNCHANGED <<config, vres, procs, owner>>

Next == HandleList \/ HandleUpload

Spec == Init /\ [][Next]_vars

(***************************************************************************)
(* Concurrent uploads: net/http runs each request on its own goroutine, so *)
(* the system calls of two calls of upload interleave.  Each step below is *)
(* one system call of main.go:155-189 and the code up to the next one.     *)
(***************************************************************************)
Procs == 1..NProcs

ConcNames == {<<"b">>, <<"a", ".", "b">>}

ConcParts(p) ==
    {[form |-> "myFile", filename |-> n, data |-> <<Digit(p)>>, err |-> e] :
        n \in ConcNames, e \in {NoErr, EOFErr}}

Idle == [pc |-> "idle"]

InitConc ==
    /\ config \in ReqConfigs
    /\ fs = InitFS
    /\ nreq = 0
    /\ req = NoReq
    /\ resp = NoResp
    /\ vres = NoCall
    /\ ures = NoCall
    /\ procs = [p \in Procs |-> Idle]
    /\ owner = <<>>

\* Lines 156-161: upload is entered with a validated directory and a part.
Begin(p) ==
    /\ procs[p].pc = "idle"
    /\ \E q \in DirQueries, part \in ConcParts(p) :
           procs' = [procs EXCEPT ![p] =
               [pc |-> "stat",
                part |-> part,
                ext |-> Ext(FileName(part)),
                file |-> Join(validatePath(fs, config.BasePath, q).path,
                              FileName(part)),
                i |-> 0, err |-> NoErr, existed |-> FALSE,
                orphan |-> FALSE]]
    /\ UNCHANGED <<config, fs, nreq, req, resp, vres, ures, owner>>

\* Lines 163-173: one pass of the loop.
StatStep(p) ==
    /\ procs[p].pc = "stat"
    /\ \E st \in {Stat(fs, procs[p].file)} :
           procs' = [procs EXCEPT ![p] =
               IF st.err = ENOENT THEN [@ EXCEPT !.pc = "create"]
               ELSE IF st.err # NoErr
               THEN [@ EXCEPT !.pc = "done", !.err = st.err]
               ELSE [@ EXCEPT !.i = @ + 1,
                              !.file = NextName(procs[p].file, procs[p].ext,
                                                procs[p].i + 1)]]
    /\ UNCHANGED <<config, fs, nreq, req, resp, vres, ures, owner>>

\* Lines 175-178.  existed records that the call opened a file that was
\* already there; owner records who created a file and what they wrote.
CreateStep(p) ==
    /\ procs[p].pc = "create"
    /\ \E cr \in {Create(fs, procs[p].file)}, a \in {Abs(procs[p].file)} :
           IF cr.err # NoErr
           THEN /\ procs' = [procs EXCEPT ![p].pc = "done", ![p].err = cr.err]
                /\ UNCHANGED <<fs, owner>>
           ELSE /\ fs' = cr.fs
                /\ procs' = [procs EXCEPT ![p].pc = "copy",
                                          ![p].existed = a \in DOMAIN fs]
                /\ owner' = IF a \in DOMAIN fs THEN owner
                            ELSE owner @@ (a :> [by |-> p, data |-> <<>>])
    /\ UNCHANGED <<config, nreq, req, resp, vres, ures>>

\* Line 182: the stream is written through the descriptor; a descriptor
\* whose file was unlinked writes to a file no path names any more.
CopyStep(p) ==
    /\ procs[p].pc = "copy"
    /\ \E a \in {Abs(procs[p].file)} :
           /\ fs' = IF procs[p].orphan THEN fs
                    ELSE WriteAbs(fs, a, 0, procs[p].part.data)
           /\ owner' = IF a \in DOMAIN owner /\ owner[a].by = p
                       THEN [owner EXCEPT ![a].data = procs[p].part.data]
                       ELSE owner
    /\ procs' = [procs EXCEPT ![p].pc = "cleanup"]
    /\ UNCHANGED <<config, nreq, req, resp, vres, ures>>

\* Lines 183-188: os.Remove takes the path, whatever file it names by now.
CleanupStep(p) ==
    /\ procs[p].pc = "cleanup"
    /\ \E a \in {Abs(procs[p].file)} :
           IF procs[p].part.err # NoErr /\ ~config.DontRemoveOnError
           THEN /\ fs' = RemoveAbs(fs, a)
                /\ owner' = IF a \in DOMAIN owner /\ owner[a].by = p
                            THEN [x \in DOMAIN owner \ {a} |-> owner[x]]
                            ELSE owner
                /\ procs' = [q \in Procs |->
                                IF q = p
                                THEN [procs[p] EXCEPT
                                         !.pc = "done",
                                         !.err = procs[p].part.err]
                                ELSE IF /\ procs[q].pc \in {"copy", "cleanup"}
                                        /\ Abs(procs[q].file) = a
                                THEN [procs[q] EXCEPT !.orphan = TRUE]
                                ELSE procs[q]]
           ELSE /\ procs' = [procs EXCEPT ![p].pc = "done",
                                          ![p].err = procs[p].part.err]
                /\ UNCHANGED <<fs, owner>>
    /\ UNCHANGED <<config, nreq, req, resp, vres, ures>>

NextConc ==
    \E p \in Procs :
        \/ Begin(p)
        \/ StatStep(p)
        \/ CreateStep(p)
        \/ CopyStep(p)
        \/ CleanupStep(p)

SpecConc == InitConc /\ [][NextConc]_vars

(***************************************************************************)
(* Properties of validatePath, checked under SpecPath.                     *)
(***************************************************************************)
IsPrefixSeq(a, b) ==
    /\ Len(a) <= Len(b)
    /\ SubSeq(b, 1, Len(a)) = a

\* Path p, resolved against the working directory, is base or lies below it.
Inside(base, p) == IsPrefixSeq(AbsSegs(Abs(base)), AbsSegs(Abs(p)))

Validated == vres.called /\ vres.res.err = NoErr

\* C3: a path that validatePath returns without error is inside the base
\* directory (it is the base or lies below it) and has no ".." segment.
C3_Confined ==
    Validated =>
        /\ Inside(config.BasePath, vres.res.path)
        /\ \A k \in DOMAIN Split(vres.res.path) :
               Split(vres.res.path)[k] # DotDot

DotSegs(p) == SelectSeq(Split(p), LAMBDA seg : HasPrefix(seg, <<".">>))

\* C4 as stated: every relative raw path with a segment that is "." or ".."
\* or starts with "." is rejected with "invalid path: <segment>".
C4_AnyDotSegmentRejected ==
    (/\ vres.called
     /\ ~HasPrefix(vres.raw, <<"/">>)
     /\ DotSegs(vres.raw) # <<>>)
        => /\ vres.res.path = <<>>
           /\ \E k \in DOMAIN DotSegs(vres.raw) :
                  vres.res.err = InvalidPath(DotSegs(vres.raw)[k])

\* C4 as amended: every raw path whose lexically cleaned form is not "." and
\* still has a segment starting with "." is rejected with "invalid path: "
\* followed by the first such segment, and no path is returned.
C4_CleanedDotSegmentRejected ==
    (/\ vres.called
     /\ Clean(vres.raw) # <<".">>
     /\ DotSegs(Clean(vres.raw)) # <<>>)
        => /\ vres.res.path = <<>>
           /\ vres.res.err = InvalidPath(DotSegs(Clean(vres.raw))[1])

\* A hidden name behind a segment that cleaning removes is rejected.
C4_Witness ==
    /\ vres.called
    /\ vres.raw = <<".", "/", ".", "a">>
    /\ vres.res.err = InvalidPath(<<".", "a">>)

\* C8: the returned path ends with a separator exactly when the target is a
\* directory, and then with exactly one separator.
C8_OneTrailingSeparator ==
    Validated =>
        /\ HasSuffix(vres.res.path, <<"/">>) <=> fs[Abs(vres.res.path)].dir
        /\ ~HasSuffix(vres.res.path, <<"/", "/">>)

(***************************************************************************)
(* Properties of the handlers, checked under Spec.                         *)
(***************************************************************************)
Unchanged(before, after) ==
    \A x \in DOMAIN before : x \in DOMAIN after /\ after[x] = before[x]

\* C1: an upload leaves every file that existed before it in place with its
\* content, and on success the file it names is a new one that holds exactly
\* the bytes of the stream; so the initial files survive any sequence.
C1_NoOverwrite ==
    /\ Unchanged(InitFS, fs)
    /\ ures.called =>
           /\ Unchanged(req.pre, fs)
           /\ (ures.created /\ ures.err = NoErr) =>
                  /\ Abs(ures.file) \notin DOMAIN req.pre
                  /\ Abs(ures.file) \in DOMAIN fs
                  /\ fs[Abs(ures.file)] = File(ures.part.data)

\* The second upload of a name that already existed is stored under a new name.
C1_Witness ==
    /\ nreq = MaxReq
    /\ ures.called
    /\ ures.err = NoErr
    /\ ures.i >= 2
    /\ fs[Abs(ures.file)] = File(ures.part.data)

OrdinaryName(n) == n \notin {<<>>, <<".">>, DotDot, <<"/">>}

\* stem+ext with " (n)" before the extension, n = 0 being the name itself.
Indexed(name, n) ==
    IF n = 0 THEN name
    ELSE SubSeq(name, 1, Len(name) - Len(Ext(name))) \o <<" ", "(">>
             \o Itoa(n) \o <<")">> \o Ext(name)

\* C2: when the name and its " (1)" .. " (N-1)" forms exist and the " (N)"
\* form does not, the upload is stored as the " (N)" form of the original name.
C2_IndexedFromOriginal ==
    (ures.called /\ ures.created /\ OrdinaryName(FileName(ures.part))) =>
        \A N \in 1..Cardinality(DOMAIN req.pre) :
            (/\ \A n \in 0..(N - 1) :
                    Abs(ures.path \o Indexed(FileName(ures.part), n))
                        \in DOMAIN req.pre
             /\ Abs(ures.path \o Indexed(FileName(ures.part), N))
                    \notin DOMAIN req.pre)
                => Abs(ures.file)
                       = Abs(ures.path \o Indexed(FileName(ures.part), N))

\* C5: the file an upload creates is a direct child of the validated
\* directory, hence inside the base directory.
C5_DirectChild ==
    (ures.called /\ ures.created) =>
        /\ Parent(Abs(ures.file)) = Abs(ures.path)
        /\ Inside(config.BasePath, ures.file)

Quote(str) == <<"\"">> \o str \o <<"\"">>

Perms(S) ==
    {order \in [1..Cardinality(S) -> S] :
        \A m, n \in 1..Cardinality(S) : m # n => order[m] # order[n]}

\* The elements a listing of absolute directory d must hold.
Visible(f, d) ==
    {IF f[x].dir THEN LastOf(AbsSegs(x)) \o <<"/">> ELSE LastOf(AbsSegs(x)) :
        x \in {y \in DOMAIN f : /\ y # <<"/">>
                                /\ Parent(y) = d
                                /\ LastOf(AbsSegs(y))[1] # "."}}

\* C6: the listing of a validated directory is answered 200 with a JSON
\* array of quoted strings, one per entry that is not hidden, in some order.
C6_ListIsJSON ==
    (/\ req.op = "list"
     /\ ~config.DisableDirectoryListing
     /\ req.v.err = NoErr
     /\ HasSuffix(req.v.path, <<"/">>))
        => /\ resp.status = StatusOK
           /\ \E order \in Perms(Visible(fs, Abs(req.v.path))) :
                  resp.body = <<"[">>
                      \o JoinStr([k \in DOMAIN order |-> Quote(order[k])],
                                 <<",">>)
                      \o <<"]">>

\* C7: when the copy fails after the file was created, the file is gone
\* unless DontRemoveOnError is set, and then it holds the bytes received;
\* upload returns the copy error and every other file is untouched.
C7_PartialUpload ==
    (ures.called /\ ures.created /\ ures.part.err # NoErr) =>
        /\ ~config.DontRemoveOnError => Abs(ures.file) \notin DOMAIN fs
        /\ config.DontRemoveOnError =>
               /\ Abs(ures.file) \in DOMAIN fs
               /\ fs[Abs(ures.file)] = File(ures.part.data)
        /\ ures.err = ures.part.err
        /\ Unchanged(req.pre, fs)
        /\ DOMAIN fs \subseteq DOMAIN req.pre \cup {Abs(ures.file)}

\* A partial upload that is kept.
C7_Witness ==
    /\ ures.called
    /\ ures.created
    /\ ures.part.err # NoErr
    /\ config.DontRemoveOnError
    /\ fs[Abs(ures.file)] = File(ures.part.data)

MyFileIndexes(parts) == {k \in DOMAIN parts : parts[k].form = "myFile"}

\* C9: of a multipart request on a validated directory, the first part named
\* myFile and no other is uploaded, at most one file appears, the status is
\* 200 exactly when that upload returned no error and 400 otherwise; with no
\* such part the answer is 400 "unknown payload" and nothing changes.
C9_FirstMyFileOnly ==
    (/\ req.op = "upload"
     /\ req.v.err = NoErr
     /\ HasSuffix(req.v.path, <<"/">>)
     /\ req.multipart)
        => IF MyFileIndexes(req.parts) = {}
           THEN /\ resp.status = StatusBadRequest
                /\ resp.body = <<"unknown payload">>
                /\ ~ures.called
                /\ fs = req.pre
           ELSE /\ ures.called
                /\ \A m \in MyFileIndexes(req.parts) : ures.k <= m
                /\ ures.k \in MyFileIndexes(req.parts)
                /\ ures.part = req.parts[ures.k]
                /\ Cardinality(DOMAIN fs \ DOMAIN req.pre) <= 1
                /\ DOMAIN fs \ DOMAIN req.pre \subseteq {Abs(ures.file)}
                /\ resp.status = StatusOK <=> ures.err = NoErr
                /\ resp.status # StatusOK => resp.status = StatusBadRequest

\* Two parts named myFile: the first is stored, the second is not.
C9_Witness ==
    /\ req.op = "upload"
    /\ Len(req.parts) = 2
    /\ MyFileIndexes(req.parts) = {1, 2}
    /\ ures.called
    /\ ures.k = 1
    /\ resp.status = StatusOK
    /\ DOMAIN fs \ DOMAIN req.pre = {Abs(ures.file)}

(***************************************************************************)
(* Properties of concurrent uploads, checked under SpecConc.               *)
(***************************************************************************)
\* C10: a create step never opens a file that another upload created after
\* the stat, and a file an upload created is there with exactly what its
\* creator wrote until the creator removes it: no other upload truncates,
\* overwrites or deletes it.
C10_NoClobber ==
    /\ \A p \in Procs : procs[p].pc \in {"copy", "cleanup", "done"} =>
           ~procs[p].existed
    /\ \A a \in DOMAIN owner :
           /\ a \in DOMAIN fs
           /\ fs[a].data = owner[a].data

====
